---- MODULE Spec2Model ----
(***************************************************************************)
(* A model of the multi-agent sustainability task force of src/agents.py:  *)
(* the two mock search tools, the four agents and the TeamOrchestrator.    *)
(*                                                                         *)
(* Text that the program inspects (queries, titles, snippets, city names)  *)
(* is a sequence of one-character strings, so that str.lower, str.split    *)
(* and the substring operator `in` are computed character by character.    *)
(* Text that is only copied into a summary is a TLA+ string.  PM2.5        *)
(* values and the statistics derived from them are fixed-point numbers in  *)
(* thousandths (43.0 is 43000), so that round(x, 2) is a real rounding.    *)
(***************************************************************************)
EXTENDS Integers, Sequences, FiniteSets, TLC

VARIABLES csv, call, ran, res

vars == <<csv, call, ran, res>>

(***************************************************************************)
(* Bounds of the model.                                                    *)
(***************************************************************************)
\* search limits are drawn from -MaxLimit .. MaxLimit
MaxLimit == 6
\* an uploaded CSV file has at most MaxRows data rows
MaxRows == 9
\* a malformed cell may occur in the first BadWithin rows of an uploaded file
BadWithin == 1

(***************************************************************************)
(* Text helpers: str.lower, str.split, `tok in text`, xs[:limit].          *)
(***************************************************************************)
UpperAlpha == <<"A","B","C","D","E","F","G","H","I","J","K","L","M",
                "N","O","P","Q","R","S","T","U","V","W","X","Y","Z">>

LowerAlpha == <<"a","b","c","d","e","f","g","h","i","j","k","l","m",
                "n","o","p","q","r","s","t","u","v","w","x","y","z">>

Whitespace == {" ", "\t", "\n", "\r"}

LowerChar(c) ==
  IF \E i \in 1..Len(UpperAlpha) : UpperAlpha[i] = c
    THEN LowerAlpha[CHOOSE i \in 1..Len(UpperAlpha) : UpperAlpha[i] = c]
    ELSE c

\* str.lower()
lower(s) == [i \in 1..Len(s) |-> LowerChar(s[i])]

\* str.split(): the maximal runs of non-whitespace characters, left to right;
\* cur is the run being read, acc the runs already closed.
RECURSIVE splitFrom(_, _, _, _)
splitFrom(s, i, cur, acc) ==
  IF i > Len(s)
    THEN IF cur = <<>> THEN acc ELSE Append(acc, cur)
    ELSE IF s[i] \in Whitespace
           THEN splitFrom(s, i + 1, <<>>, IF cur = <<>> THEN acc ELSE Append(acc, cur))
           ELSE splitFrom(s, i + 1, Append(cur, s[i]), acc)

split(s) == splitFrom(s, 1, <<>>, <<>>)

\* text[k+1 .. k+Len(tok)] = tok, compared one character at a time
RECURSIVE matchAt(_, _, _, _)
matchAt(tok, text, k, j) ==
  IF j > Len(tok) THEN TRUE
  ELSE IF k + j > Len(text) THEN FALSE
  ELSE IF text[k + j] # tok[j] THEN FALSE
  ELSE matchAt(tok, text, k, j + 1)

\* the Python operator `tok in text` on strings, scanning the start positions
RECURSIVE containsFrom(_, _, _)
containsFrom(tok, text, k) ==
  IF k + Len(tok) > Len(text) THEN FALSE
  ELSE IF matchAt(tok, text, k, 1) THEN TRUE
  ELSE containsFrom(tok, text, k + 1)

contains(tok, text) == containsFrom(tok, text, 0)

\* a slice that keeps one element too many
SliceToInclusive(xs, limit) ==
  IF limit >= 0
    THEN SubSeq(xs, 1, IF limit + 1 < Len(xs) THEN limit + 1 ELSE Len(xs))
    ELSE SubSeq(xs, 1, IF Len(xs) + limit + 1 > 0 THEN Len(xs) + limit + 1 ELSE 0)

\* the Python slice xs[:limit]: a negative limit counts from the end
SliceTo(xs, limit) ==
  IF limit >= 0
    THEN SubSeq(xs, 1, IF limit < Len(xs) THEN limit ELSE Len(xs))
    ELSE SubSeq(xs, 1, IF Len(xs) + limit > 0 THEN Len(xs) + limit ELSE 0)

\* the lower-cased fields of a record that a tool searches
Fields(r, withSnippet) ==
  IF withSnippet THEN <<lower(r.title), lower(r.snippet)>> ELSE <<lower(r.title)>>

\* tok in f1 or tok in f2 ..., left to right over the searched fields
RECURSIVE inAny(_, _, _)
inAny(tok, fields, j) ==
  IF j > Len(fields) THEN FALSE
  ELSE IF contains(tok, fields[j]) THEN TRUE
  ELSE inAny(tok, fields, j + 1)

\* any(tok in ... for tok in toks), left to right
RECURSIVE anyTok(_, _, _)
anyTok(toks, i, fields) ==
  IF i > Len(toks) THEN FALSE
  ELSE IF inAny(toks[i], fields, 1) THEN TRUE
  ELSE anyTok(toks, i + 1, fields)

\* [r for r in corpus if any(...)]; fields[i] are the searched fields of corpus[i]
RECURSIVE filterFrom(_, _, _, _)
filterFrom(corpus, fields, i, toks) ==
  IF i > Len(corpus) THEN <<>>
  ELSE IF anyTok(toks, 1, fields[i])
         THEN <<corpus[i]>> \o filterFrom(corpus, fields, i + 1, toks)
  ELSE filterFrom(corpus, fields, i + 1, toks)

\* no fallback to the whole corpus
NoFallback(filtered, whole) == filtered

\* Python's `filtered or canned`: an empty list is falsy
OrElse(filtered, whole) == IF filtered = <<>> THEN whole ELSE filtered

(***************************************************************************)
(* The mock tools.                                                         *)
(***************************************************************************)
canned ==
  << [title |-> <<"K","a","r","a","c","h","i"," ","l","a","u","n","c","h","e","s"," ","c","o","a","s","t","a","l"," ","m","a","n","g","r","o","v","e"," ","r","e","s","t","o","r","a","t","i","o","n"," ","p","l","a","n">>,
      link |-> "https://example.org/news/mangrove-restoration",
      snippet |-> <<"C","i","t","y"," ","p","a","r","t","n","e","r","s"," ","w","i","t","h"," ","N","G","O","s"," ","t","o"," ","p","l","a","n","t"," ","1"," ","m","i","l","l","i","o","n"," ","m","a","n","g","r","o","v","e","s"," ","t","o"," ","b","o","o","s","t"," ","b","l","u","e"," ","c","a","r","b","o","n",".">>],
     [title |-> <<"L","a","h","o","r","e"," ","p","i","l","o","t","s"," ","e","l","e","c","t","r","i","c"," ","b","u","s","e","s"," ","f","o","r"," ","B","R","T"," ","c","o","r","r","i","d","o","r","s">>,
      link |-> "https://example.org/news/e-bus-lahore",
      snippet |-> <<"5","0"," ","e","-","b","u","s","e","s"," ","r","e","d","u","c","e"," ","P","M","2",".","5"," ","h","o","t","s","p","o","t","s"," ","a","n","d"," ","o","p","e","r","a","t","i","n","g"," ","c","o","s","t","s"," ","b","y"," ","2","0","%",".">>],
     [title |-> <<"I","s","l","a","m","a","b","a","d"," ","i","n","s","t","a","l","l","s"," ","s","m","a","r","t"," ","a","i","r","-","q","u","a","l","i","t","y"," ","m","o","n","i","t","o","r","s">>,
      link |-> "https://example.org/news/smart-aqis",
      snippet |-> <<"O","p","e","n"," ","d","a","t","a"," ","p","l","a","t","f","o","r","m"," ","t","o"," ","i","n","f","o","r","m"," ","t","r","a","f","f","i","c"," ","r","e","s","t","r","i","c","t","i","o","n","s"," ","o","n"," ","s","m","o","g"," ","d","a","y","s",".">>],
     [title |-> <<"K","a","r","a","c","h","i"," ","r","o","o","f","t","o","p"," ","s","o","l","a","r"," ","i","n","c","e","n","t","i","v","e"," ","e","x","p","a","n","d","s">>,
      link |-> "https://example.org/news/rooftop-solar",
      snippet |-> <<"N","e","t"," ","m","e","t","e","r","i","n","g"," ","a","n","d"," ","l","o","w","-","i","n","t","e","r","e","s","t"," ","l","o","a","n","s"," ","f","o","r"," ","h","o","u","s","e","h","o","l","d","s"," ","a","n","d"," ","S","M","E","s",".">>],
     [title |-> <<"P","e","s","h","a","w","a","r"," ","l","a","u","n","c","h","e","s"," ","p","l","a","s","t","i","c","-","f","r","e","e"," ","m","a","r","k","e","t","s"," ","i","n","i","t","i","a","t","i","v","e">>,
      link |-> "https://example.org/news/plastic-free",
      snippet |-> <<"A","l","t","e","r","n","a","t","i","v","e","s"," ","a","n","d"," ","v","e","n","d","o","r"," ","t","r","a","i","n","i","n","g"," ","i","n"," ","5"," ","p","i","l","o","t"," ","b","a","z","a","a","r","s",".">>] >>

ideas ==
  << [title |-> <<"L","i","t","h","i","u","m","-","f","r","e","e"," ","s","o","d","i","u","m","-","i","o","n"," ","s","t","r","e","e","t","l","i","g","h","t"," ","b","a","t","t","e","r","i","e","s">>,
      link |-> "https://example.org/hn/sodium-ion"],
     [title |-> <<"M","o","d","u","l","a","r"," ","m","i","c","r","o","f","o","r","e","s","t","s"," ","f","o","r"," ","u","l","t","r","a","-","d","e","n","s","e"," ","c","i","t","i","e","s">>,
      link |-> "https://example.org/hn/microforests"],
     [title |-> <<"A","I","-","d","r","i","v","e","n"," ","d","y","n","a","m","i","c"," ","b","u","s"," ","h","e","a","d","w","a","y","s"," ","c","u","t"," ","i","d","l","e"," ","t","i","m","e">>,
      link |-> "https://example.org/hn/ai-bus"],
     [title |-> <<"P","e","r","m","e","a","b","l","e"," ","s","o","l","a","r"," ","p","a","v","e","m","e","n","t"," ","t","i","l","e","s"," ","f","o","r"," ","s","i","d","e","w","a","l","k","s">>,
      link |-> "https://example.org/hn/solar-tiles"],
     [title |-> <<"D","i","s","t","r","i","c","t"," ","c","o","o","l","i","n","g"," ","v","i","a"," ","t","r","e","a","t","e","d"," ","w","a","s","t","e","w","a","t","e","r">>,
      link |-> "https://example.org/hn/district-cooling"] >>


\* r["title"].lower() and r["snippet"].lower() of every canned record
cannedFields == [i \in 1..Len(canned) |-> Fields(canned[i], TRUE)]

\* the lower-cased titles of the canned records alone
ideasFieldsOfCanned == [i \in 1..Len(canned) |-> Fields(canned[i], FALSE)]

\* r["title"].lower() of every idea
ideasFields == [i \in 1..Len(ideas) |-> Fields(ideas[i], FALSE)]

\* a general search that looks at the titles only
GoogleSearchTitleOnly(query, limit) ==
  LET q == lower(query)
      filtered == filterFrom(canned, ideasFieldsOfCanned, 1, split(q))
  IN  SliceTo(OrElse(filtered, canned), limit)

\* GoogleSearchTools.search(query, limit)
GoogleSearch(query, limit) ==
  LET q == lower(query)
      filtered == filterFrom(canned, cannedFields, 1, split(q))
  IN  SliceTo(OrElse(filtered, canned), limit)

\* HackerNewsTools.search(query, limit)
HackerNewsSearch(query, limit) ==
  LET q == lower(query)
      filtered == filterFrom(ideas, ideasFields, 1, split(q))
  IN  SliceTo(OrElse(filtered, ideas), limit)

(***************************************************************************)
(* Inputs.                                                                 *)
(***************************************************************************)
DefaultTopic == <<"c","i","t","y","-","l","e","v","e","l"," ","g","r","e","e","n"," ","p","r","o","j","e","c","t","s">>

DefaultInnovQuery == <<"u","r","b","a","n"," ","s","u","s","t","a","i","n","a","b","i","l","i","t","y"," ","t","e","c","h">>

PolicySuffix == <<" ","s","u","s","t","a","i","n","a","b","i","l","i","t","y"," ","p","o","l","i","c","y"," ","u","p","d","a","t","e">>

Karachi == <<"K","a","r","a","c","h","i">>

Lahore == <<"L","a","h","o","r","e">>

YourCity == <<"Y","o","u","r"," ","C","i","t","y">>

Islamabad == <<"I","s","l","a","m","a","b","a","d">>

AppNewsTopic == <<"s","u","s","t","a","i","n","a","b","i","l","i","t","y"," ","i","n","i","t","i","a","t","i","v","e","s"," ","i","n"," ","P","a","k","i","s","t","a","n"," ","c","i","t","i","e","s">>

\* queries a caller may type, besides the defaults
Queries ==
  { <<>>,
    <<" ","\t">>,
    <<"b","u","s">>,
    <<"B","U","S">>,
    <<"z","z","z">>,
    <<"s","o","l","a","r"," "," ","L","a","h","o","r","e">>,
    <<"N","G","O","s"," ","a","i","-","d","r","i","v","e","n">>,
    DefaultTopic, DefaultInnovQuery, AppNewsTopic }

Cities == {Karachi, Lahore}

Limits == (0 - MaxLimit)..MaxLimit

\* an uploaded file of the orchestrator's model has at most TeamRows rows
TeamRows == 1

\* the default of the `limit` parameter of the three search agents
DefaultLimit == 5

\* the 7-day change needs len(df) >= Window rows and reads df.iloc[-Window]
Window == 8

\* the demo data frame has DemoDays rows
DemoDays == 30

\* PM2.5 readings of uploaded rows, in thousandths (39.004 and 43.0)
PmVals == {39004, 43000}

\* the header rows an uploaded file may have
Headers ==
  { {"date", "pm25", "pm10", "no2", "city"},
    {"date", "pm25"},
    {"date", "city"},
    {"pm25", "city"} }

(***************************************************************************)
(* Values.                                                                 *)
(***************************************************************************)
Null == [null |-> TRUE, v |-> 0]

Num(x) == [null |-> FALSE, v |-> x]

\* a parsed cell of a CSV column, or one that did not parse (ok = FALSE)
Cell(x) == [ok |-> TRUE, v |-> x]

BadCell == [ok |-> FALSE, v |-> 0]

NoCsv == [kind |-> "none"]

EmptyCsv == [kind |-> "empty"]

\* AgentResult(title, summary, artifacts)
AgentResult(title, summary, artifacts) ==
  [ok |-> TRUE, title |-> title, summary |-> summary, artifacts |-> artifacts]

\* an exception leaving the call
Raise(error) == [ok |-> FALSE, error |-> error]

\* kwargs.get(key, default) and a defaulted keyword parameter
Get(kwargs, key, default) ==
  IF key \in DOMAIN kwargs THEN kwargs[key] ELSE default

\* dict.get(key): None when the key is absent
GetCsv(kwargs, key) == Get(kwargs, key, NoCsv)

(***************************************************************************)
(* The three search agents.                                                *)
(***************************************************************************)
\* NewsAnalystAgent.run(topic, limit)
NewsRun(topic, limit) ==
  LET results == GoogleSearch(topic, limit)
      lines == [i \in 1..Len(results) |->
                  <<"- [", results[i].title, "](", results[i].link, "): ",
                    results[i].snippet>>]
      summary == <<"Recent items related to sustainability initiatives:">> \o lines
  IN  AgentResult("News Digest", summary, [results |-> results])

\* PolicyReviewerAgent.run(city, limit)
PolicyRun(city, limit) ==
  LET query == city \o PolicySuffix
      results == GoogleSearch(query, limit)
      bullet_points == [i \in 1..Len(results) |->
                          <<"- ", results[i].title, ": ", results[i].snippet>>]
      summary == << <<"Policy signals for ", city, ":">> >> \o bullet_points
  IN  AgentResult(<<"Policy Brief: ", city>>, summary, [results |-> results])

\* InnovationsScoutAgent.run(query, limit)
InnovationRun(query, limit) ==
  LET results == HackerNewsSearch(query, limit)
      lines == [i \in 1..Len(results) |->
                  <<"- [", results[i].title, "](", results[i].link, ")">>]
      summary == <<"Promising innovations:">> \o lines
  IN  AgentResult("Innovation Radar", summary, [results |-> results])

(***************************************************************************)
(* The data analyst.                                                       *)
(***************************************************************************)
DemoPm25 ==
  <<50,48,45,52,60,55,58,62,49,47,46,45,44,50,52,51,48,46,45,43,42,40,39,41,44,46,49,47,45,43>>

DemoPm10 ==
  <<90,88,85,92,100,95,98,102,89,87,86,85,84,90,92,91,88,86,85,83,82,80,79,81,84,86,89,87,85,83>>

DemoNo2 ==
  <<30,32,31,29,35,34,33,36,31,30,29,28,27,31,32,33,30,29,28,27,26,25,24,25,26,27,28,27,26,25>>

\* the demo data frame: one row per day from 2025-01-01 (day 1), tagged with city
DemoFrame(city) ==
  [cols |-> {"date", "pm25", "pm10", "no2", "city"},
   rows |-> [i \in 1..DemoDays |->
               [date |-> Cell(i), pm25 |-> Cell(1000 * DemoPm25[i]),
                pm10 |-> Cell(1000 * DemoPm10[i]), no2 |-> Cell(1000 * DemoNo2[i]),
                city |-> city]]]

\* pd.read_csv(..., parse_dates=["date"]) of an uploaded file: a missing date
\* column is an error; cells that do not parse stay in the frame as text
ReadCsvFails(file) == "date" \notin file.cols

\* the order of the date column: parsed dates by day; a column holding an
\* unparseable cell is left as text, where it sorts after the ISO dates
DateLE(a, b) == ~b.ok \/ (a.ok /\ a.v <= b.v)

\* the place of row r in the sorted rows: after the last row not dated later
RECURSIVE insertRow(_, _)
insertRow(sorted, r) ==
  IF sorted = <<>> THEN <<r>>
  ELSE IF DateLE(sorted[Len(sorted)].date, r.date) THEN Append(sorted, r)
  ELSE Append(insertRow(SubSeq(sorted, 1, Len(sorted) - 1), r), sorted[Len(sorted)])

\* df.sort_values("date")
RECURSIVE sortFrom(_, _, _)
sortFrom(rows, i, sorted) ==
  IF i > Len(rows) THEN sorted ELSE sortFrom(rows, i + 1, insertRow(sorted, rows[i]))

sort_values(rows) == sortFrom(rows, 1, <<>>)

\* round(num / den, 2) of a value in thousandths (den > 0): the nearest
\* multiple of 10.  Python rounds the binary value of the float, so where an
\* exact decimal tie falls depends on its representation; here it goes to the
\* even hundredth, and PmVals and the demo columns produce no tie.
Round2(num, den) ==
  LET n2 == 2 * num + 10 * den
      d2 == 20 * den
      k == n2 \div d2
  IN  IF n2 % d2 = 0 /\ k % 2 = 1 THEN 10 * (k - 1) ELSE 10 * k

RECURSIVE sumFrom(_, _)
sumFrom(xs, i) == IF i > Len(xs) THEN 0 ELSE xs[i] + sumFrom(xs, i + 1)

\* the ascending order of a list of numbers
RECURSIVE insertNum(_, _)
insertNum(sorted, x) ==
  IF sorted = <<>> THEN <<x>>
  ELSE IF sorted[Len(sorted)] <= x THEN Append(sorted, x)
  ELSE Append(insertNum(SubSeq(sorted, 1, Len(sorted) - 1), x), sorted[Len(sorted)])

RECURSIVE sortNums(_, _, _)
sortNums(xs, i, sorted) ==
  IF i > Len(xs) THEN sorted ELSE sortNums(xs, i + 1, insertNum(sorted, xs[i]))

\* round(float(df["pm25"].mean()), 2)
Mean(xs) == Round2(sumFrom(xs, 1), Len(xs))

\* round(float(df["pm25"].median()), 2)
Median(xs) ==
  LET s == sortNums(xs, 1, <<>>)
      n == Len(s)
  IN  IF n % 2 = 1 THEN Round2(s[(n + 1) \div 2], 1)
      ELSE Round2(s[n \div 2] + s[n \div 2 + 1], 2)

\* a change read against the row 4 positions before the last
Change7dShort(cols, rows) ==
  IF "pm25" \in cols /\ Len(rows) >= Window
    THEN Num(Round2(rows[Len(rows)].pm25.v - rows[Len(rows) - 4].pm25.v, 1))
    ELSE Null

\* stats["pm25_change_7d"]
Change7d(cols, rows) ==
  IF "pm25" \in cols /\ Len(rows) >= Window
    THEN Num(Round2(rows[Len(rows)].pm25.v - rows[Len(rows) - Window + 1].pm25.v, 1))
    ELSE Null

\* a label that counts a zero change as a decrease
TrendNonPositive(change) ==
  IF ~change.null /\ change.v <= 0 THEN "decreasing" ELSE "increasing or stable"

\* the trend label of the summary
Trend(change) ==
  IF ~change.null /\ change.v < 0 THEN "decreasing" ELSE "increasing or stable"

\* the stats dictionary of a sorted frame
Stats(cols, rows) ==
  LET pm == [i \in 1..Len(rows) |-> rows[i].pm25.v]
      has == "pm25" \in cols
  IN  [n_days |-> Len(rows),
       pm25_avg |-> IF has THEN Num(Mean(pm)) ELSE Null,
       pm25_median |-> IF has THEN Num(Median(pm)) ELSE Null,
       pm25_latest |-> IF has THEN Num(pm[Len(pm)]) ELSE Null,
       pm25_change_7d |-> Change7d(cols, rows)]

\* the exception the statistics or the summary raise on a sorted frame, "" if none
StatsError(cols, rows) ==
  IF "pm25" \in cols /\ \E i \in 1..Len(rows) : ~rows[i].pm25.ok THEN "TypeError"
  ELSE IF "pm25" \in cols /\ rows = <<>> THEN "IndexError"
  ELSE IF "city" \notin cols THEN "KeyError"
  ELSE IF rows = <<>> THEN "IndexError"
  ELSE ""

\* DataAnalystAgent.run(csv_bytes, city)
DataRun(csv_bytes, city) ==
  IF csv_bytes.kind = "file" /\ ReadCsvFails(csv_bytes) THEN Raise("ValueError")
  ELSE
    LET df == IF csv_bytes.kind = "file" THEN csv_bytes ELSE DemoFrame(city)
        rows == sort_values(df.rows)
        err == StatsError(df.cols, rows)
    IN  IF err # "" THEN Raise(err)
        ELSE
          LET stats == Stats(df.cols, rows)
              trend == Trend(stats.pm25_change_7d)
              summary ==
                << <<"Analyzed ", stats.n_days, " days for ", rows[1].city, ".">>,
                   <<"- PM2.5 average: ", stats.pm25_avg>>,
                   <<"- PM2.5 median: ", stats.pm25_median>>,
                   <<"- Latest PM2.5: ", stats.pm25_latest>>,
                   <<"- 7-day change: ", stats.pm25_change_7d, " (", trend, ")">> >>
          IN  AgentResult("Air Quality Summary", summary,
                          [dataframe |-> [cols |-> df.cols, rows |-> rows],
                           stats |-> stats])

(***************************************************************************)
(* The orchestrator.                                                       *)
(***************************************************************************)
AgentNames == {"News Analyst", "Data Analyst", "Policy Reviewer", "Innovations Scout"}

\* a table that also answers to a lower-case name
agent_map_loose ==
  [n \in AgentNames \cup {"news analyst"} |->
     CASE n \in {"News Analyst", "news analyst"} -> "news"
       [] n = "Data Analyst" -> "data"
       [] n = "Policy Reviewer" -> "policy"
       [] n = "Innovations Scout" -> "innov"]

\* the keys of agent_map
agent_map ==
  [n \in AgentNames |->
     CASE n = "News Analyst" -> "news"
       [] n = "Data Analyst" -> "data"
       [] n = "Policy Reviewer" -> "policy"
       [] n = "Innovations Scout" -> "innov"]

\* the parameters agent.run(**kwargs) binds, with their defaults
BoundArgs(agent, kwargs) ==
  CASE agent = "news" -> [topic |-> Get(kwargs, "topic", DefaultTopic),
                          limit |-> Get(kwargs, "limit", DefaultLimit)]
    [] agent = "data" -> [csv_bytes |-> GetCsv(kwargs, "csv_bytes"),
                          city |-> Get(kwargs, "city", Karachi)]
    [] agent = "policy" -> [city |-> Get(kwargs, "city", Karachi),
                            limit |-> Get(kwargs, "limit", DefaultLimit)]
    [] agent = "innov" -> [query |-> Get(kwargs, "query", DefaultInnovQuery),
                           limit |-> Get(kwargs, "limit", DefaultLimit)]

\* agent.run with its bound parameters
AgentRun(agent, a) ==
  CASE agent = "news" -> NewsRun(a.topic, a.limit)
    [] agent = "data" -> DataRun(a.csv_bytes, a.city)
    [] agent = "policy" -> PolicyRun(a.city, a.limit)
    [] agent = "innov" -> InnovationRun(a.query, a.limit)

\* one entry of the log of agent runs
Ran(agent, a) == [agent |-> agent, args |-> a]

\* TeamOrchestrator.run_single(agent_name, **kwargs): the runs it makes
run_single_ran(agent_name, kwargs) ==
  IF agent_name \in DOMAIN agent_map
    THEN <<Ran(agent_map[agent_name], BoundArgs(agent_map[agent_name], kwargs))>>
    ELSE <<>>

\* TeamOrchestrator.run_single(agent_name, **kwargs): what it returns or raises
run_single(agent_name, kwargs) ==
  IF agent_name \in DOMAIN agent_map
    THEN AgentRun(agent_map[agent_name], BoundArgs(agent_map[agent_name], kwargs))
    ELSE Raise("ValueError")

\* the city the title line of the proposal interpolates
TitleCity(inputs) == Get(inputs, "city", YourCity)

\* the proposal text, block by block, around the four summaries it embeds
ProposalBlocks(city, first, second, third, fourth) ==
  << [kind |-> "h1", text |-> "# Sustainability Proposal for ", city |-> city],
     [kind |-> "h2", text |-> "## Executive Summary"],
     [kind |-> "para", text |-> "This proposal synthesizes signals from recent news, policy updates, environmental data, and emerging innovations to suggest actionable steps for urban sustainability."],
     [kind |-> "h2", text |-> "## 1) News Insights"],
     [kind |-> "summary", text |-> first],
     [kind |-> "h2", text |-> "## 2) Policy Landscape"],
     [kind |-> "summary", text |-> second],
     [kind |-> "h2", text |-> "## 3) Environmental Data Highlights"],
     [kind |-> "summary", text |-> third],
     [kind |-> "h2", text |-> "## 4) Innovation Opportunities"],
     [kind |-> "summary", text |-> fourth],
     [kind |-> "h2", text |-> "## 5) Recommended Actions (Draft)"],
     [kind |-> "bullet", text |-> "- Scale rooftop solar with net metering and low-interest financing."],
     [kind |-> "bullet", text |-> "- Pilot e-buses on the highest pollution corridors informed by AQ data."],
     [kind |-> "bullet", text |-> "- Expand mangrove/coastal restoration to enhance blue carbon and flood resilience."],
     [kind |-> "bullet", text |-> "- Open AQ data and set smog-day response protocols."],
     [kind |-> "bullet", text |-> "- Explore sodium-ion batteries and solar pavement pilots in busy districts."] >>

\* a proposal that embeds the summaries in the order the agents ran
ProposalInRunOrder(inputs, news_res, data_res, policy_res, innov_res) ==
  ProposalBlocks(TitleCity(inputs), news_res.summary, data_res.summary,
                 policy_res.summary, innov_res.summary)

\* the proposal of run_team: policy comes second, data third
Proposal(inputs, news_res, data_res, policy_res, innov_res) ==
  ProposalBlocks(TitleCity(inputs), news_res.summary, policy_res.summary,
                 data_res.summary, innov_res.summary)

\* the parameters run_team gives the four agents, in the order it runs them
TeamArgs(inputs) ==
  << Ran("news", [topic |-> Get(inputs, "news_topic", DefaultTopic), limit |-> DefaultLimit]),
     Ran("data", [csv_bytes |-> GetCsv(inputs, "csv_bytes"),
                  city |-> Get(inputs, "city", Karachi)]),
     Ran("policy", [city |-> Get(inputs, "city", Karachi), limit |-> DefaultLimit]),
     Ran("innov", [query |-> Get(inputs, "innov_query", DefaultInnovQuery),
                   limit |-> DefaultLimit]) >>

\* TeamOrchestrator.run_team(inputs): the runs it makes; an exception of the
\* data analyst ends the call before the policy reviewer runs
run_team_ran(inputs) ==
  LET t == TeamArgs(inputs)
  IN  IF AgentRun("data", t[2].args).ok THEN t ELSE SubSeq(t, 1, 2)

\* TeamOrchestrator.run_team(inputs): what it returns or raises
run_team(inputs) ==
  LET t == TeamArgs(inputs)
      news_res == AgentRun("news", t[1].args)
      data_res == AgentRun("data", t[2].args)
      policy_res == AgentRun("policy", t[3].args)
      innov_res == AgentRun("innov", t[4].args)
  IN  IF ~data_res.ok THEN data_res
      ELSE AgentResult("Combined Sustainability Proposal",
                       Proposal(inputs, news_res, data_res, policy_res, innov_res),
                       [news |-> news_res.artifacts, data |-> data_res.artifacts,
                        policy |-> policy_res.artifacts,
                        innovation |-> innov_res.artifacts])

(***************************************************************************)
(* The state: the file in the uploader (csv), the last call made (call),   *)
(* the agent runs that call made, in order (ran), and what it returned or  *)
(* raised (res).                                                           *)
(***************************************************************************)
NoCall == [op |-> "none"]

NoResult == [ok |-> FALSE, error |-> ""]

Init ==
  /\ csv = NoCsv
  /\ call = NoCall
  /\ ran = <<>>
  /\ res = NoResult

\* names a caller may pass to run_single
Names ==
  AgentNames \cup {"", "news analyst", " News Analyst", "Data Analyst ", "Team"}

\* the days of the parsed date cells of the rows
Days(file) ==
  IF "date" \in file.cols
    THEN {file.rows[i].date.v : i \in {j \in 1..Len(file.rows) : file.rows[j].date.ok}}
    ELSE {}

\* the parsed dates of the rows of the file run forward (dir = 1) or backward
\* (dir = -1) in time
Ordered(file, dir) ==
  \A i, j \in 1..Len(file.rows) :
    (i < j /\ file.rows[i].date.ok /\ file.rows[j].date.ok)
      => dir * file.rows[i].date.v < dir * file.rows[j].date.v

\* the dates the next row of the file may carry: a file lists its days oldest
\* first or newest first
NextDates(file) ==
  LET days == Days(file)
      later == IF days = {} THEN {Cell(1)}
               ELSE IF Ordered(file, 1)
                      THEN {Cell(1 + CHOOSE d \in days : \A e \in days : e <= d)}
               ELSE {}
      earlier == IF days # {} /\ Ordered(file, 0 - 1)
                   THEN {Cell((CHOOSE d \in days : \A e \in days : d <= e) - 1)}
                 ELSE {}
      bad == IF Len(file.rows) < BadWithin THEN {BadCell} ELSE {}
  IN  IF "date" \in file.cols THEN later \cup earlier \cup bad ELSE {Cell(0)}

\* the PM2.5 cells the next row of the file may carry
NextPm25(file) ==
  IF "pm25" \in file.cols
    THEN {Cell(p) : p \in PmVals} \cup (IF Len(file.rows) < BadWithin THEN {BadCell} ELSE {})
    ELSE {Cell(0)}

\* one row of a file with the given header
Row(cols, date, pm25) ==
  [c \in cols |->
     CASE c = "date" -> date
       [] c = "pm25" -> pm25
       [] c = "city" -> Islamabad
       [] OTHER -> Cell(0)]

\* the user picks a CSV file: its header row
Upload(cols) ==
  /\ csv.kind = "none" /\ call.op = "none"
  /\ csv' = [kind |-> "file", cols |-> cols, rows |-> <<>>]
  /\ UNCHANGED <<call, ran, res>>

\* the user picks a file of zero bytes
UploadEmpty ==
  /\ csv.kind = "none" /\ call.op = "none"
  /\ csv' = EmptyCsv
  /\ UNCHANGED <<call, ran, res>>

\* the picked file has one more data row
AddRow(maxRows) ==
  /\ csv.kind = "file" /\ call.op = "none"
  /\ Len(csv.rows) < maxRows
  /\ \E date \in NextDates(csv), pm25 \in NextPm25(csv) :
       csv' = [csv EXCEPT !.rows = Append(@, Row(csv.cols, date, pm25))]
  /\ UNCHANGED <<call, ran, res>>

\* a direct call of GoogleSearchTools.search
CallGoogleSearch ==
  /\ csv.kind = "none" /\ call.op = "none"
  /\ \E query \in Queries, limit \in Limits :
       /\ call' = [op |-> "GoogleSearch", query |-> query, limit |-> limit]
       /\ res' = [ok |-> TRUE, records |-> GoogleSearch(query, limit)]
  /\ UNCHANGED <<csv, ran>>

\* a direct call of HackerNewsTools.search
CallHackerNewsSearch ==
  /\ csv.kind = "none" /\ call.op = "none"
  /\ \E query \in Queries, limit \in Limits :
       /\ call' = [op |-> "HackerNewsSearch", query |-> query, limit |-> limit]
       /\ res' = [ok |-> TRUE, records |-> HackerNewsSearch(query, limit)]
  /\ UNCHANGED <<csv, ran>>

\* the keyword arguments a caller may pass to run_single; a picked file is
\* always passed on
KwargsFor(file) ==
  LET withFile == {[csv_bytes |-> file, city |-> c] : c \in Cities}
      noFile ==
        {<<>>}
        \cup {[topic |-> t] : t \in Queries}
        \cup {[topic |-> t, limit |-> l] : t \in Queries, l \in Limits}
        \cup {[city |-> c, limit |-> l] : c \in Cities, l \in Limits}
        \cup {[query |-> t, limit |-> l] : t \in Queries, l \in Limits}
  IN  IF file.kind = "none" THEN withFile \cup noFile ELSE withFile

\* a call of TeamOrchestrator.run_single
CallRunSingle ==
  /\ call.op = "none"
  /\ \E agent_name \in Names, kwargs \in KwargsFor(csv) :
       /\ call' = [op |-> "run_single", agent_name |-> agent_name, kwargs |-> kwargs]
       /\ ran' = run_single_ran(agent_name, kwargs)
       /\ res' = run_single(agent_name, kwargs)
  /\ UNCHANGED csv

\* the "Run Data Analyst" button of the front end
RunDataAnalyst ==
  /\ call.op = "none"
  /\ \E city \in Cities :
       LET kwargs == [csv_bytes |-> csv, city |-> city]
       IN  /\ call' = [op |-> "run_single", agent_name |-> "Data Analyst",
                       kwargs |-> kwargs]
           /\ ran' = run_single_ran("Data Analyst", kwargs)
           /\ res' = run_single("Data Analyst", kwargs)
  /\ UNCHANGED csv

\* an optional field of the inputs of run_team
Absent == [has |-> FALSE, v |-> <<>>]

Present(x) == [has |-> TRUE, v |-> x]

TeamTopics == {AppNewsTopic, <<"b","u","s">>}

\* the inputs dictionary with the fields that are present
MkInputs(city, news_topic, innov_query, csv_bytes) ==
  LET opt == [city |-> city, news_topic |-> news_topic,
              innov_query |-> innov_query, csv_bytes |-> csv_bytes]
  IN  [k \in {x \in DOMAIN opt : opt[x].has} |-> opt[k].v]

\* the inputs a caller may pass to run_team; a picked file is always passed on
InputsFor(file) ==
  {MkInputs(c, t, q, b) :
     c \in {Absent} \cup {Present(x) : x \in Cities},
     t \in {Absent} \cup {Present(x) : x \in TeamTopics},
     q \in {Absent} \cup {Present(x) : x \in TeamTopics},
     b \in (IF file.kind = "none" THEN {Absent} ELSE {}) \cup {Present(file)}}

\* a call of TeamOrchestrator.run_team
CallRunTeam ==
  /\ call.op = "none"
  /\ \E inputs \in InputsFor(csv) :
       /\ call' = [op |-> "run_team", inputs |-> inputs]
       /\ ran' = run_team_ran(inputs)
       /\ res' = run_team(inputs)
  /\ UNCHANGED csv

\* the front end runs its script again from the top: a new orchestrator
Rerun ==
  /\ call.op # "none"
  /\ csv' = NoCsv
  /\ call' = NoCall
  /\ ran' = <<>>
  /\ res' = NoResult

\* the orchestrator and the tools, with small files
Next ==
  \/ \E cols \in Headers : Upload(cols)
  \/ UploadEmpty
  \/ AddRow(TeamRows)
  \/ CallGoogleSearch
  \/ CallHackerNewsSearch
  \/ CallRunSingle
  \/ CallRunTeam
  \/ Rerun

Spec == Init /\ [][Next]_vars

\* the data analyst on uploaded files of up to MaxRows rows
NextData ==
  \/ \E cols \in Headers : Upload(cols)
  \/ UploadEmpty
  \/ AddRow(MaxRows)
  \/ RunDataAnalyst
  \/ Rerun

SpecData == Init /\ [][NextData]_vars

(***************************************************************************)
(* What the specification says, stated without the program's operators:    *)
(* tokens, substrings, matching records and truncation.                    *)
(***************************************************************************)
\* the last call was a direct call of one of the two search tools
IsSearchCall == call.op \in {"GoogleSearch", "HackerNewsSearch"}

\* the corpus of the tool that was called
CorpusOf == IF call.op = "GoogleSearch" THEN canned ELSE ideas

\* the maximal whitespace-free stretches q[i..j] of a text
TokenSpans(q) ==
  {s \in (1..Len(q)) \X (1..Len(q)) :
     /\ s[1] <= s[2]
     /\ \A k \in s[1]..s[2] : q[k] \notin Whitespace
     /\ (s[1] = 1 \/ q[s[1] - 1] \in Whitespace)
     /\ (s[2] = Len(q) \/ q[s[2] + 1] \in Whitespace)}

\* the whitespace-separated tokens of the lower-cased query
QueryTokens(query) ==
  {SubSeq(lower(query), s[1], s[2]) : s \in TokenSpans(lower(query))}

IsSubstring(a, b) ==
  \E k \in 0..(Len(b) - Len(a)) : SubSeq(b, k + 1, k + Len(a)) = a

\* a record matches: some token is a substring of its lower-cased title or,
\* for the general-search provider, of its lower-cased snippet
RecordMatches(r, query, withSnippet) ==
  \E tok \in QueryTokens(query) :
    \/ IsSubstring(tok, lower(r.title))
    \/ (withSnippet /\ IsSubstring(tok, lower(r.snippet)))

\* the matching records in corpus order, or the whole corpus when none matches
ExpectedRecords(corpus, query, withSnippet) ==
  LET matching == SelectSeq(corpus, LAMBDA r : RecordMatches(r, query, withSnippet))
  IN  IF matching = <<>> THEN corpus ELSE matching

\* the first `limit` elements of xs, all of xs when it has fewer
Truncated(xs, limit) ==
  [i \in 1..(IF limit < Len(xs) THEN limit ELSE Len(xs)) |-> xs[i]]

\* the last call ran the data analyst through run_single
IsDataCall == call.op = "run_single" /\ call.agent_name = "Data Analyst"

\* the dataset bytes and the city of that call
DataFile == GetCsv(call.kwargs, "csv_bytes")

DataCity == Get(call.kwargs, "city", Karachi)

\* the trend label the summary of a data-analyst result prints
TrendLabel == res.summary[5][4]

\* m is x rounded to 2 decimal places (both in thousandths)
IsRounded2(m, x) == m % 10 = 0 /\ (m - x) \in (0 - 5)..5

\* the level-2 headings of a document, in order
H2Texts(doc) ==
  LET hs == SelectSeq(doc, LAMBDA b : b.kind = "h2")
  IN  [i \in 1..Len(hs) |-> hs[i].text]

\* the block that follows the heading
SectionAfter(doc, heading) ==
  doc[1 + CHOOSE i \in 1..Len(doc) : doc[i].kind = "h2" /\ doc[i].text = heading]

\* the block after the heading is the given summary, verbatim
SectionIs(doc, heading, summary) ==
  /\ SectionAfter(doc, heading).kind = "summary"
  /\ SectionAfter(doc, heading).text = summary

\* the four sub-task sections of the proposal of run_team with no inputs
FourSections(doc) ==
  /\ SectionIs(doc, "## 1) News Insights", NewsRun(DefaultTopic, DefaultLimit).summary)
  /\ SectionIs(doc, "## 2) Policy Landscape", PolicyRun(Karachi, DefaultLimit).summary)
  /\ SectionIs(doc, "## 3) Environmental Data Highlights", DataRun(NoCsv, Karachi).summary)
  /\ SectionIs(doc, "## 4) Innovation Opportunities",
               InnovationRun(DefaultInnovQuery, DefaultLimit).summary)

\* the last call was run_team with an empty inputs dictionary
IsTeamCallNoInputs == call.op = "run_team" /\ DOMAIN call.inputs = {}

SearchAgentNames == {"News Analyst", "Policy Reviewer", "Innovations Scout"}

(***************************************************************************)
(* C1: run_single dispatches by exact name: each of the four names runs    *)
(* exactly its own agent with the given parameters and returns its result; *)
(* every other name (empty, other case, extra blanks) raises the           *)
(* unknown-agent error and runs no agent.                                  *)
(***************************************************************************)
C1_ExactDispatch ==
  call.op = "run_single" =>
    LET kw == call.kwargs
        topic == Get(kw, "topic", DefaultTopic)
        query == Get(kw, "query", DefaultInnovQuery)
        city == Get(kw, "city", Karachi)
        limit == Get(kw, "limit", DefaultLimit)
    IN  CASE call.agent_name = "News Analyst" ->
               /\ Len(ran) = 1 /\ ran[1].agent = "news"
               /\ ran[1].args = [topic |-> topic, limit |-> limit]
               /\ res = NewsRun(topic, limit)
          [] call.agent_name = "Data Analyst" ->
               /\ Len(ran) = 1 /\ ran[1].agent = "data"
               /\ ran[1].args = [csv_bytes |-> GetCsv(kw, "csv_bytes"), city |-> city]
               /\ res = DataRun(GetCsv(kw, "csv_bytes"), city)
          [] call.agent_name = "Policy Reviewer" ->
               /\ Len(ran) = 1 /\ ran[1].agent = "policy"
               /\ ran[1].args = [city |-> city, limit |-> limit]
               /\ res = PolicyRun(city, limit)
          [] call.agent_name = "Innovations Scout" ->
               /\ Len(ran) = 1 /\ ran[1].agent = "innov"
               /\ ran[1].args = [query |-> query, limit |-> limit]
               /\ res = InnovationRun(query, limit)
          [] OTHER ->
               ran = <<>> /\ ~res.ok /\ res.error = "ValueError"

\* a name that differs from a known one only in case was refused
C1_Witness ==
  /\ call.op = "run_single" /\ call.agent_name = "news analyst"
  /\ ran = <<>> /\ ~res.ok

(***************************************************************************)
(* C2 as stated: run_team with no inputs yields a document with exactly    *)
(* four section headings, "## 1) News Insights" to "## 4) Innovation       *)
(* Opportunities", in order, each followed by its sub-task's summary.      *)
(***************************************************************************)
C2_Original ==
  (IsTeamCallNoInputs /\ res.ok) =>
    /\ H2Texts(res.summary) =
         <<"## 1) News Insights", "## 2) Policy Landscape",
           "## 3) Environmental Data Highlights", "## 4) Innovation Opportunities">>
    /\ FourSections(res.summary)

(***************************************************************************)
(* C2 amended: the document has six level-2 headings, in this order:       *)
(* Executive Summary, the four numbered sub-task sections, and             *)
(* "## 5) Recommended Actions (Draft)"; each of the four sub-task headings *)
(* is followed by the corresponding sub-task's summary verbatim.           *)
(***************************************************************************)
C2_SixHeadings ==
  IsTeamCallNoInputs =>
    /\ res.ok
    /\ H2Texts(res.summary) =
         <<"## Executive Summary",
           "## 1) News Insights", "## 2) Policy Landscape",
           "## 3) Environmental Data Highlights", "## 4) Innovation Opportunities",
           "## 5) Recommended Actions (Draft)">>
    /\ FourSections(res.summary)

\* run_team({}) returned its proposal
C2_Witness ==
  /\ IsTeamCallNoInputs /\ res.ok
  /\ res.title = "Combined Sustainability Proposal"
  /\ Len(ran) = 4

(***************************************************************************)
(* C3 as stated: when the inputs of run_team have no city, the title line  *)
(* of the proposal, the data analyst and the policy reviewer all use the   *)
(* same city, "Karachi".                                                   *)
(***************************************************************************)
C3_Original ==
  (call.op = "run_team" /\ "city" \notin DOMAIN call.inputs /\ res.ok) =>
    /\ res.summary[1].kind = "h1" /\ res.summary[1].city = Karachi
    /\ ran[2].agent = "data" /\ ran[2].args.city = Karachi
    /\ ran[3].agent = "policy" /\ ran[3].args.city = Karachi

(***************************************************************************)
(* C4 as stated: for every dataset the data analyst processes, n_days is   *)
(* the row count, pm25_change_7d is null iff n_days < 8, and otherwise it  *)
(* is (to 2 decimal places) the pm25 of the last row minus the pm25 of the *)
(* row 7 positions before it, the rows being in ascending date order.      *)
(***************************************************************************)
C4_Original ==
  (IsDataCall /\ res.ok) =>
    LET st == res.artifacts.stats
        rows == res.artifacts.dataframe.rows
        n == IF DataFile.kind = "file" THEN Len(DataFile.rows) ELSE DemoDays
    IN  /\ st.n_days = n
        /\ Len(rows) = n
        /\ \A i, j \in 1..n :
             (i < j /\ rows[i].date.ok /\ rows[j].date.ok) => rows[i].date.v <= rows[j].date.v
        /\ st.pm25_change_7d.null <=> n < 8
        /\ n >= 8 => IsRounded2(st.pm25_change_7d.v, rows[n].pm25.v - rows[n - 7].pm25.v)

(***************************************************************************)
(* C5 as stated: the demo dataset for city "Lahore" yields n_days = 30,    *)
(* pm25_avg = 47.33, pm25_latest = 43, pm25_change_7d = -3.0 and the trend *)
(* label "decreasing".                                                     *)
(***************************************************************************)
C5_Original ==
  (IsDataCall /\ DataFile.kind = "none" /\ DataCity = Lahore) =>
    /\ res.ok
    /\ res.artifacts.stats.n_days = 30
    /\ res.artifacts.stats.pm25_avg = Num(47330)
    /\ res.artifacts.stats.pm25_latest = Num(43000)
    /\ res.artifacts.stats.pm25_change_7d = Num(0 - 3000)
    /\ TrendLabel = "decreasing"

(***************************************************************************)
(* C5 amended: the demo dataset for city "Lahore" yields n_days = 30,      *)
(* pm25_avg = 47.73, pm25_latest = 43, pm25_change_7d = 43 - 39 = 4.0 and  *)
(* the trend label "increasing or stable".                                 *)
(***************************************************************************)
C5_DemoStats ==
  (IsDataCall /\ DataFile.kind = "none" /\ DataCity = Lahore) =>
    /\ res.ok
    /\ res.artifacts.stats.n_days = 30
    /\ res.artifacts.stats.pm25_avg = Num(47730)
    /\ res.artifacts.stats.pm25_latest = Num(43000)
    /\ res.artifacts.stats.pm25_change_7d = Num(4000)
    /\ TrendLabel = "increasing or stable"

\* the data analyst ran on the demo dataset for Lahore
C5_Witness ==
  /\ IsDataCall /\ DataFile.kind = "none" /\ DataCity = Lahore
  /\ res.ok
  /\ Len(res.artifacts.dataframe.rows) = DemoDays
  /\ res.summary[1][4] = Lahore

(***************************************************************************)
(* C6 as stated: dataset bytes that are invalid (no date column, no pm25   *)
(* column, an unparseable date, a non-numeric pm25) make the call fail and *)
(* return no result; a dataset with valid date and pm25 columns that lacks *)
(* the optional columns pm10, no2 and city is accepted and yields a result.*)
(***************************************************************************)
C6_Original ==
  (IsDataCall /\ DataFile.kind = "file") =>
    LET cols == DataFile.cols
        rows == DataFile.rows
        invalid ==
          \/ "date" \notin cols
          \/ "pm25" \notin cols
          \/ \E i \in 1..Len(rows) : ~rows[i].date.ok
          \/ \E i \in 1..Len(rows) : ~rows[i].pm25.ok
    IN  /\ invalid => ~res.ok
        /\ (~invalid /\ rows # <<>>) => res.ok

(***************************************************************************)
(* C7 as stated: for every query and limit, each search tool returns the   *)
(* matching records in corpus order truncated to limit, or, when no record *)
(* matches, the whole corpus in order truncated to limit.                  *)
(***************************************************************************)
C7_Original ==
  IsSearchCall =>
    res.records = Truncated(ExpectedRecords(CorpusOf, call.query, call.op = "GoogleSearch"),
                            call.limit)

(***************************************************************************)
(* C7 amended: the same, for every query and every limit >= 0.             *)
(***************************************************************************)
C7_MatchOrFallback ==
  (IsSearchCall /\ call.limit >= 0) =>
    res.records = Truncated(ExpectedRecords(CorpusOf, call.query, call.op = "GoogleSearch"),
                            call.limit)

\* the general search matched one record, and matched it by its snippet alone
C7_Witness ==
  /\ call.op = "GoogleSearch"
  /\ call.query = <<"N","G","O","s"," ","a","i","-","d","r","i","v","e","n">>
  /\ call.limit = 3
  /\ res.records = <<canned[1]>>

(***************************************************************************)
(* C8 as stated: for any query and any integer limit, zero and negative    *)
(* ones included, a search returns at most limit records and at most as    *)
(* many as the corpus holds.                                               *)
(***************************************************************************)
C8_Original ==
  IsSearchCall =>
    /\ Len(res.records) <= call.limit
    /\ Len(res.records) <= Len(CorpusOf)

(***************************************************************************)
(* C8 amended: for any query, a search with limit >= 0 returns at most     *)
(* limit records, and a search with any integer limit returns at most as   *)
(* many records as the corpus holds.                                       *)
(***************************************************************************)
C8_LengthBound ==
  IsSearchCall =>
    /\ call.limit >= 0 => Len(res.records) <= call.limit
    /\ Len(res.records) <= Len(CorpusOf)

\* a search whose result the limit cut short
C8_Witness ==
  /\ call.op = "HackerNewsSearch"
  /\ call.limit = 2
  /\ Len(res.records) = 2
  /\ Len(ExpectedRecords(ideas, call.query, FALSE)) > 2

(***************************************************************************)
(* C9 as stated: a search never returns an empty sequence, whatever the    *)
(* query and the limit, so the news, policy and innovation agents, run     *)
(* through run_single with any limit or through run_team, never produce a  *)
(* summary without result lines.                                           *)
(***************************************************************************)
C9_Original ==
  /\ IsSearchCall => res.records # <<>>
  /\ (call.op = "run_single" /\ call.agent_name \in SearchAgentNames) =>
       Len(res.summary) >= 2
  /\ (call.op = "run_team" /\ res.ok) =>
       \A i \in {5, 7, 11} : Len(res.summary[i].text) >= 2

(***************************************************************************)
(* C9 amended: a search with limit >= 1 never returns an empty sequence,   *)
(* so the news, policy and innovation agents, run through run_single with  *)
(* a limit >= 1 (or the default limit) or through run_team, never produce  *)
(* a summary without result lines.                                         *)
(***************************************************************************)
C9_NonEmpty ==
  /\ (IsSearchCall /\ call.limit >= 1) => res.records # <<>>
  /\ (/\ call.op = "run_single" /\ call.agent_name \in SearchAgentNames
      /\ Get(call.kwargs, "limit", DefaultLimit) >= 1) =>
       /\ res.ok
       /\ Len(res.summary) >= 2
       /\ res.artifacts.results # <<>>
  /\ (call.op = "run_team" /\ res.ok) =>
       \A i \in {5, 7, 11} :
         res.summary[i].kind = "summary" /\ Len(res.summary[i].text) >= 2

\* a query that matches nothing still gave the scout one result line
C9_Witness ==
  /\ call.op = "run_single" /\ call.agent_name = "Innovations Scout"
  /\ DOMAIN call.kwargs = {"query", "limit"}
  /\ call.kwargs.query = <<"z","z","z">>
  /\ call.kwargs.limit = 1
  /\ res.ok /\ Len(res.summary) = 2

(***************************************************************************)
(* C10: in every result of the data analyst the trend label is             *)
(* "decreasing" iff pm25_change_7d is non-null and strictly below 0, and   *)
(* "increasing or stable" when it is 0, above 0, or null.                  *)
(***************************************************************************)
C10_TrendLabel ==
  (IsDataCall /\ res.ok) =>
    LET change == res.artifacts.stats.pm25_change_7d
    IN  /\ TrendLabel = "decreasing" <=> (~change.null /\ change.v < 0)
        /\ (change.null \/ change.v >= 0) => TrendLabel = "increasing or stable"

\* an uploaded dataset whose 7-day change is exactly zero
C10_Witness ==
  /\ IsDataCall /\ res.ok /\ DataFile.kind = "file"
  /\ ~res.artifacts.stats.pm25_change_7d.null
  /\ res.artifacts.stats.pm25_change_7d.v = 0
  /\ TrendLabel = "increasing or stable"

====
